---- MODULE Spec2Model ----
(***************************************************************************)
(* Verification model of mulch:                                            *)
(*   - the configuration compiler NewVMConfigFromTomlReader                *)
(*     (cmd/mulchd/server/vm_config.go),                                   *)
(*   - the VM creation prototype main() (test-create.go),                  *)
(*   - the "vm redefine" client command (test-create.go, vmRedefineCmd)    *)
(*     and the server-side lifecycle it calls.                             *)
(* Strings are sequences of one-character strings, so that splitting,     *)
(* trimming, lower-casing and number parsing are computed, not assumed.    *)
(* Sizes are counted in KiB (datasize.KB == 1024 bytes is the unit).       *)
(***************************************************************************)
EXTENDS Integers, Sequences, FiniteSets, TLC

VARIABLES
    \* the configuration compiler: the document read and what the call returned
    doc, result,
    \* test-create.go main(): its position, its libvirt connection, the files
    \* and pools it finds, the volume test.qcow2, the domain test0, what this
    \* run made, the steps it completed and the step that failed
    cpc, conn, envr, vol, domain, made, succeeded, failed,
    \* the lifecycle of the VMs: the VM records, the lock of each VM name, the
    \* operations requested, and the hypervisor's domains and volumes
    registry, lock, ops, hyp

compileVars == <<doc, result>>

createVars == <<cpc, conn, envr, vol, domain, made, succeeded, failed>>

lifecycleVars == <<registry, lock, ops, hyp>>

outsideCompile == <<createVars, lifecycleVars>>

outsideCreate == <<compileVars, lifecycleVars>>

outsideLifecycle == <<compileVars, createVars>>

(***************************************************************************)
(* Strings                                                                 *)
(***************************************************************************)
Nil == "nil"

EmptyString == <<>>

Upper == {"A", "B", "C"}

Lower == {"a", "b", "c", "d", "g", "j", "k", "n", "p", "q", "s", "u", "v", "w", "x", "f"}

Digits == {"0", "1", "2", "3", "4", "5", "6", "7", "8", "9"}

\* strings.ToLower, one character
LowerChar(c) ==
    CASE c = "A" -> "a"
      [] c = "B" -> "b"
      [] c = "C" -> "c"
      [] OTHER -> c

\* strings.ToLower
ToLower(s) == [i \in 1..Len(s) |-> LowerChar(s[i])]

IsSpace(c) == c = " "

RECURSIVE TrimLeft(_)
TrimLeft(s) ==
    IF s # <<>> /\ IsSpace(Head(s)) THEN TrimLeft(Tail(s)) ELSE s

RECURSIVE TrimRight(_)
TrimRight(s) ==
    IF s # <<>> /\ IsSpace(s[Len(s)]) THEN TrimRight(SubSeq(s, 1, Len(s) - 1)) ELSE s

\* strings.TrimSpace
TrimSpace(s) == TrimRight(TrimLeft(s))

\* strings.Index(s, sep): 1-based position of the first occurrence, 0 if none
\* (Go returns the 0-based position, -1 if none)
RECURSIVE IndexFrom(_, _, _)
IndexFrom(s, sep, i) ==
    IF i + Len(sep) - 1 > Len(s) THEN 0
    ELSE IF SubSeq(s, i, i + Len(sep) - 1) = sep THEN i
    ELSE IndexFrom(s, sep, i + 1)

Index(s, sep) == IndexFrom(s, sep, 1)

\* strings.Split(s, sep) for a non-empty sep
RECURSIVE Split(_, _)
Split(s, sep) ==
    LET p == Index(s, sep) IN
    IF p = 0 THEN <<s>>
    ELSE <<SubSeq(s, 1, p - 1)>> \o Split(SubSeq(s, p + Len(sep), Len(s)), sep)

DigitVal(c) ==
    CASE c = "0" -> 0 [] c = "1" -> 1 [] c = "2" -> 2 [] c = "3" -> 3
      [] c = "4" -> 4 [] c = "5" -> 5 [] c = "6" -> 6 [] c = "7" -> 7
      [] c = "8" -> 8 [] c = "9" -> 9

RECURSIVE DigitsVal(_, _)
DigitsVal(s, acc) ==
    IF s = <<>> THEN acc ELSE DigitsVal(Tail(s), acc * 10 + DigitVal(Head(s)))

\* strconv.Atoi: an optional sign followed by one or more decimal digits
Atoi(s) ==
    LET signed == s # <<>> /\ Head(s) \in {"+", "-"}
        body == IF signed THEN Tail(s) ELSE s
    IN  IF body = <<>> \/ \E i \in 1..Len(body) : body[i] \notin Digits
        THEN [ok |-> FALSE, val |-> 0]
        ELSE [ok |-> TRUE,
              val |-> IF signed /\ Head(s) = "-" THEN 0 - DigitsVal(body, 0)
                      ELSE DigitsVal(body, 0)]

\* IsValidTokenName: a non-empty string of letters, digits and underscores
IsValidTokenName(s) ==
    /\ s # <<>>
    /\ \A i \in 1..Len(s) : s[i] \in Upper \cup Lower \cup Digits \cup {"_"}

(***************************************************************************)
(* Configuration compiler (vm_config.go)                                   *)
(***************************************************************************)
\* datasize.KB, datasize.MB, datasize.GB, in KiB
KB == 1

MB == 1024 * KB

GB == 1024 * MB

\* errors carry the kind of the message and the value the message names;
\* kind "none" is Go's nil error
NoError == [kind |-> "none", arg |-> <<>>]

IsError(e) == e.kind # "none"

Error(kind, arg) == [kind |-> kind, arg |-> arg]

\* what a URL serves: GetScriptFromURL fails for every URL that is not listed
Web(url) ==
    CASE url = <<"g">> -> [ok |-> TRUE, body |-> <<"#", "!", "x">>]
      [] url = <<"n">> -> [ok |-> TRUE, body |-> <<"a", "b", "c">>]
      [] url = <<"s">> -> [ok |-> TRUE, body |-> <<"#">>]
      [] url = <<"p", "g">> -> [ok |-> TRUE, body |-> <<"#", "!">>]
      [] url = <<"p", "n">> -> [ok |-> TRUE, body |-> <<"#", "!", "y">>]
      [] url = <<"q", "g">> -> [ok |-> TRUE, body |-> <<"!", "#">>]
      [] url = <<"q", "n">> -> [ok |-> TRUE, body |-> <<"#", "!">>]
      [] OTHER -> [ok |-> FALSE, body |-> <<>>]

GetScriptFromURL(url) == Web(url)

\* stream.Read(signature) into a 2-byte buffer: the bytes read
Read2(body) == SubSeq(body, 1, IF Len(body) < 2 THEN Len(body) ELSE 2)

\* vmConfigGetScript fetching the relative URL, the category prefix forgotten
vmConfigGetScript_NoPrefix(tScript, prefixURL) ==
    LET sepPlace == Index(tScript, <<"@">>) IN
    IF sepPlace = 0 THEN [err |-> Error("script format", tScript), script |-> Nil]
    ELSE
    LET as == SubSeq(tScript, 1, sepPlace - 1)
        scriptURL == SubSeq(tScript, sepPlace + 1, Len(tScript))
    IN
    IF ~IsValidTokenName(as) THEN [err |-> Error("script user", as), script |-> Nil]
    ELSE
    LET stream == GetScriptFromURL(scriptURL) IN
    IF ~stream.ok THEN [err |-> Error("script fetch", scriptURL), script |-> Nil]
    ELSE
    LET signature == Read2(stream.body) IN
    IF Len(signature) # 2 THEN [err |-> Error("script read", scriptURL), script |-> Nil]
    ELSE IF signature # <<"#", "!">>
    THEN [err |-> Error("script shebang", scriptURL), script |-> Nil]
    ELSE [err |-> NoError, script |-> [ScriptURL |-> scriptURL, As |-> as]]

vmConfigGetScript(tScript, prefixURL) ==
    LET sepPlace == Index(tScript, <<"@">>) IN
    IF sepPlace = 0 THEN [err |-> Error("script format", tScript), script |-> Nil]
    ELSE
    LET as == SubSeq(tScript, 1, sepPlace - 1)
        scriptURL == prefixURL \o SubSeq(tScript, sepPlace + 1, Len(tScript))
    IN
    IF ~IsValidTokenName(as) THEN [err |-> Error("script user", as), script |-> Nil]
    ELSE
    LET stream == GetScriptFromURL(scriptURL) IN
    IF ~stream.ok THEN [err |-> Error("script fetch", scriptURL), script |-> Nil]
    ELSE
    LET signature == Read2(stream.body) IN
    IF Len(signature) # 2 THEN [err |-> Error("script read", scriptURL), script |-> Nil]
    ELSE IF signature # <<"#", "!">>
    THEN [err |-> Error("script shebang", scriptURL), script |-> Nil]
    ELSE [err |-> NoError, script |-> [ScriptURL |-> scriptURL, As |-> as]]

\* the three "for _, tScript := range ..." loops
RECURSIVE GetScripts(_, _, _)
GetScripts(tScripts, prefixURL, acc) ==
    IF tScripts = <<>> THEN [err |-> NoError, scripts |-> acc]
    ELSE LET r == vmConfigGetScript(Head(tScripts), prefixURL) IN
         IF IsError(r.err) THEN [err |-> r.err, scripts |-> Nil]
         ELSE GetScripts(Tail(tScripts), prefixURL, Append(acc, r.script))

\* defaults (if not in the file); the other fields start as Go zero values.
\* "localhost.localdomain", "Europe/Paris" and "app" are written l, e and app.
tomlDefaults ==
    [Name |-> EmptyString, Hostname |-> <<"l">>, Timezone |-> <<"e">>,
     AppUser |-> <<"a", "p", "p">>, Seed |-> EmptyString, InitUpgrade |-> TRUE,
     DiskSize |-> 0, RAMSize |-> 0, CPUCount |-> 1, Domains |-> <<>>,
     RedirectToHTTPS |-> TRUE, Redirects |-> <<>>, Env |-> <<>>,
     BackupDiskSize |-> 2 * GB, RestoreBackup |-> EmptyString,
     PreparePrefixURL |-> EmptyString, Prepare |-> <<>>,
     BackupPrefixURL |-> EmptyString, Backup |-> <<>>,
     RestorePrefixURL |-> EmptyString, Restore |-> <<>>]

TomlKeys == DOMAIN tomlDefaults

\* A document gives each key <<>> when the file does not hold the key and
\* <<v>> when it holds it with value v.
None == <<>>

Some(v) == <<v>>

\* toml.Decode onto the defaults: a key of the file overwrites the field
tomlDecode(d) ==
    [k \in TomlKeys |-> IF d[k] = None THEN tomlDefaults[k] ELSE d[k][1]]

\* the domain loop with the host name lower-cased but not trimmed
RECURSIVE ParseDomains_NoTrim(_, _, _, _)
ParseDomains_NoTrim(tDomains, vmName, redirectToHTTPS, acc) ==
    IF tDomains = <<>> THEN [err |-> NoError, domains |-> acc]
    ELSE
    LET domainName == Head(tDomains)
        parts == Split(domainName, <<"-", ">">>)
    IN
    IF Len(parts) # 1 /\ Len(parts) # 2
    THEN [err |-> Error("domain string", domainName), domains |-> <<>>]
    ELSE
    LET hostName == ToLower(parts[1])
        port == IF Len(parts) = 2 THEN Atoi(parts[2]) ELSE [ok |-> TRUE, val |-> 80]
    IN
    IF ~port.ok THEN [err |-> Error("port number", parts[2]), domains |-> <<>>]
    ELSE ParseDomains_NoTrim(Tail(tDomains), vmName, redirectToHTTPS,
            Append(acc, [Name |-> hostName, VMName |-> vmName,
                         DestinationPort |-> port.val,
                         RedirectToHTTPS |-> redirectToHTTPS,
                         RedirectTo |-> EmptyString]))

\* the "for _, domainName := range tConfig.Domains" loop
RECURSIVE ParseDomains(_, _, _, _)
ParseDomains(tDomains, vmName, redirectToHTTPS, acc) ==
    IF tDomains = <<>> THEN [err |-> NoError, domains |-> acc]
    ELSE
    LET domainName == Head(tDomains)
        parts == Split(domainName, <<"-", ">">>)
    IN
    IF Len(parts) # 1 /\ Len(parts) # 2
    THEN [err |-> Error("domain string", domainName), domains |-> <<>>]
    ELSE
    LET hostName == TrimSpace(ToLower(parts[1]))
        port == IF Len(parts) = 2 THEN Atoi(parts[2]) ELSE [ok |-> TRUE, val |-> 80]
    IN
    IF ~port.ok THEN [err |-> Error("port number", parts[2]), domains |-> <<>>]
    ELSE ParseDomains(Tail(tDomains), vmName, redirectToHTTPS,
            Append(acc, [Name |-> hostName, VMName |-> vmName,
                         DestinationPort |-> port.val,
                         RedirectToHTTPS |-> redirectToHTTPS,
                         RedirectTo |-> EmptyString]))

\* domainList: the host names of the bindings, in order
DomainList(domains) == [i \in 1..Len(domains) |-> domains[i].Name]

\* "check if dest is one of our domains"
FoundDest(domainList, dest) == \E i \in 1..Len(domainList) : domainList[i] = dest

\* the redirect loop looking the target up in vmConfig.Domains, which also
\* holds the sources of the earlier redirects, instead of domainList
RECURSIVE ParseRedirects_AnyDomain(_, _, _, _)
ParseRedirects_AnyDomain(tRedirects, vmName, domainList, acc) ==
    IF tRedirects = <<>> THEN [err |-> NoError, domains |-> acc]
    ELSE
    LET redirectParts == Head(tRedirects) IN
    IF Len(redirectParts) # 2
    THEN [err |-> Error("redirect values", <<>>), domains |-> <<>>]
    ELSE
    LET from == TrimSpace(ToLower(redirectParts[1]))
        dest == TrimSpace(ToLower(redirectParts[2]))
    IN
    IF ~FoundDest(DomainList(acc), dest)
    THEN [err |-> Error("redirect target", dest), domains |-> <<>>]
    ELSE ParseRedirects_AnyDomain(Tail(tRedirects), vmName, domainList,
            Append(acc, [Name |-> from, VMName |-> vmName,
                         DestinationPort |-> 0, RedirectToHTTPS |-> FALSE,
                         RedirectTo |-> dest]))

\* the "for _, redirectParts := range tConfig.Redirects" loop; acc is
\* vmConfig.Domains, domainList the bindings' host names
RECURSIVE ParseRedirects(_, _, _, _)
ParseRedirects(tRedirects, vmName, domainList, acc) ==
    IF tRedirects = <<>> THEN [err |-> NoError, domains |-> acc]
    ELSE
    LET redirectParts == Head(tRedirects) IN
    IF Len(redirectParts) # 2
    THEN [err |-> Error("redirect values", <<>>), domains |-> <<>>]
    ELSE
    LET from == TrimSpace(ToLower(redirectParts[1]))
        dest == TrimSpace(ToLower(redirectParts[2]))
    IN
    IF ~FoundDest(domainList, dest)
    THEN [err |-> Error("redirect target", dest), domains |-> <<>>]
    ELSE ParseRedirects(Tail(tRedirects), vmName, domainList,
            Append(acc, [Name |-> from, VMName |-> vmName,
                         DestinationPort |-> 0, RedirectToHTTPS |-> FALSE,
                         RedirectTo |-> dest]))

\* the duplicate check with "domainMap[domain.Name] = true" left out
DuplicatedDomain_NoRecord(domains, domainMap) == NoError

\* "check for duplicated domain": the first name met a second time, if any
RECURSIVE DuplicatedDomain(_, _)
DuplicatedDomain(domains, domainMap) ==
    IF domains = <<>> THEN NoError
    ELSE IF Head(domains).Name \in domainMap
         THEN Error("domain duplicated", Head(domains).Name)
         ELSE DuplicatedDomain(Tail(domains), domainMap \cup {Head(domains).Name})

\* the env loop without the "exists" test: a repeated key overwrites
RECURSIVE ParseEnv_Overwrite(_, _)
ParseEnv_Overwrite(tEnv, env) ==
    IF tEnv = <<>> THEN [err |-> NoError, env |-> env]
    ELSE
    LET line == Head(tEnv) IN
    IF Len(line) # 2 THEN [err |-> Error("env line", <<>>), env |-> <<>>]
    ELSE
    LET key == line[1]
        val == line[2]
    IN
    IF ~IsValidTokenName(key) THEN [err |-> Error("env name", key), env |-> <<>>]
    ELSE ParseEnv_Overwrite(Tail(tEnv), [k \in DOMAIN env \cup {key} |->
                                            IF k = key THEN val ELSE env[k]])

\* the "for _, line := range tConfig.Env" loop; env is the map vmConfig.Env
RECURSIVE ParseEnv(_, _)
ParseEnv(tEnv, env) ==
    IF tEnv = <<>> THEN [err |-> NoError, env |-> env]
    ELSE
    LET line == Head(tEnv) IN
    IF Len(line) # 2 THEN [err |-> Error("env line", <<>>), env |-> <<>>]
    ELSE
    LET key == line[1]
        val == line[2]
    IN
    IF ~IsValidTokenName(key) THEN [err |-> Error("env name", key), env |-> <<>>]
    ELSE IF key \in DOMAIN env THEN [err |-> Error("env duplicated", key), env |-> <<>>]
    ELSE ParseEnv(Tail(tEnv), [k \in DOMAIN env \cup {key} |->
                                    IF k = key THEN val ELSE env[k]])

\* the nil *VMConfig
NilConfig == [nil |-> TRUE]

Failure(e) == [done |-> TRUE, err |-> e, vmConfig |-> NilConfig]

\* a document toml.Decode rejects (syntax or type error)
MalformedDoc == [malformed |-> TRUE]

\* the scalar checks with the RAM size checked before the disk size
ScalarError_RAMFirst(tConfig) ==
    IF tConfig.Name = EmptyString \/ ~IsValidTokenName(tConfig.Name)
    THEN Error("VM name", tConfig.Name)
    ELSE IF tConfig.AppUser = EmptyString
    THEN Error("app_user name", tConfig.AppUser)
    ELSE IF tConfig.Seed = EmptyString \/ ~IsValidTokenName(tConfig.Seed)
    THEN Error("seed image", tConfig.Seed)
    ELSE IF tConfig.RAMSize < 1 * MB
    THEN Error("small RAM", <<tConfig.RAMSize>>)
    ELSE IF tConfig.DiskSize < 1 * MB
    THEN Error("small disk", <<tConfig.DiskSize>>)
    ELSE IF tConfig.CPUCount < 1
    THEN Error("CPU", <<>>)
    ELSE NoError

\* the checks of the scalar fields but the backup disk size, in source order
ScalarError(tConfig) ==
    IF tConfig.Name = EmptyString \/ ~IsValidTokenName(tConfig.Name)
    THEN Error("VM name", tConfig.Name)
    ELSE IF tConfig.AppUser = EmptyString
    THEN Error("app_user name", tConfig.AppUser)
    ELSE IF tConfig.Seed = EmptyString \/ ~IsValidTokenName(tConfig.Seed)
    THEN Error("seed image", tConfig.Seed)
    ELSE IF tConfig.DiskSize < 1 * MB
    THEN Error("small disk", <<tConfig.DiskSize>>)
    ELSE IF tConfig.RAMSize < 1 * MB
    THEN Error("small RAM", <<tConfig.RAMSize>>)
    ELSE IF tConfig.CPUCount < 1
    THEN Error("CPU", <<>>)
    ELSE NoError

\* the backup disk check against 32 KB instead of 32 MB
BackupDiskError_KB(tConfig) ==
    IF tConfig.BackupDiskSize < 32 * KB
    THEN Error("small backup disk", <<tConfig.BackupDiskSize>>)
    ELSE NoError

\* the check of the backup disk size, made after the env loop
BackupDiskError(tConfig) ==
    IF tConfig.BackupDiskSize < 32 * MB
    THEN Error("small backup disk", <<tConfig.BackupDiskSize>>)
    ELSE NoError

NewVMConfigFromTomlReader(configIn) ==
    IF "malformed" \in DOMAIN configIn THEN Failure(Error("toml", <<>>))
    ELSE
    LET tConfig == tomlDecode(configIn)
        scalarErr == ScalarError(tConfig)
    IN
    IF IsError(scalarErr) THEN Failure(scalarErr)
    ELSE
    LET bindings == ParseDomains(tConfig.Domains, tConfig.Name,
                                 tConfig.RedirectToHTTPS, <<>>)
    IN
    IF IsError(bindings.err) THEN Failure(bindings.err)
    ELSE
    LET all == ParseRedirects(tConfig.Redirects, tConfig.Name,
                              DomainList(bindings.domains), bindings.domains)
    IN
    IF IsError(all.err) THEN Failure(all.err)
    ELSE
    LET dupErr == DuplicatedDomain(all.domains, {}) IN
    IF IsError(dupErr) THEN Failure(dupErr)
    ELSE
    LET env == ParseEnv(tConfig.Env, <<>>) IN
    IF IsError(env.err) THEN Failure(env.err)
    ELSE
    LET backupErr == BackupDiskError(tConfig) IN
    IF IsError(backupErr) THEN Failure(backupErr)
    ELSE
    LET prepare == GetScripts(tConfig.Prepare, tConfig.PreparePrefixURL, <<>>) IN
    IF IsError(prepare.err) THEN Failure(prepare.err)
    ELSE
    LET backup == GetScripts(tConfig.Backup, tConfig.BackupPrefixURL, <<>>) IN
    IF IsError(backup.err) THEN Failure(backup.err)
    ELSE
    LET restore == GetScripts(tConfig.Restore, tConfig.RestorePrefixURL, <<>>) IN
    IF IsError(restore.err) THEN Failure(restore.err)
    ELSE
    [done |-> TRUE, err |-> NoError,
     vmConfig |->
        [FileContent |-> configIn,
         Name |-> tConfig.Name, Hostname |-> tConfig.Hostname,
         Timezone |-> tConfig.Timezone, AppUser |-> tConfig.AppUser,
         Seed |-> tConfig.Seed, InitUpgrade |-> tConfig.InitUpgrade,
         DiskSize |-> tConfig.DiskSize, RAMSize |-> tConfig.RAMSize,
         CPUCount |-> tConfig.CPUCount, Domains |-> all.domains,
         Env |-> env.env, BackupDiskSize |-> tConfig.BackupDiskSize,
         RestoreBackup |-> tConfig.RestoreBackup,
         Prepare |-> prepare.scripts, Backup |-> backup.scripts,
         Restore |-> restore.scripts]]

(***************************************************************************)
(* Input documents                                                         *)
(***************************************************************************)
\* most list entries of a document, over all its lists together
MaxEntries == 3

\* the same, for the documents that range over every scalar combination
MinorEntries == 1

NameValues == {None, Some(<<"w">>), Some(<<"w", "!">>)}

AppUserValues == {None, Some(EmptyString), Some(<<"u">>)}

SeedValues == {None, Some(<<"s">>), Some(<<"!">>)}

DiskSizeValues == {None, Some(500 * KB), Some(1 * MB)}

RAMSizeValues == {Some(1 * MB - 1), Some(512 * MB)}

CPUCountValues == {None, Some(0), Some(2)}

BackupDiskSizeValues == {None, Some(32 * MB - 1), Some(32 * MB)}

\* every combination of the checked scalar fields, the rest left out
ScalarParts ==
    [Name : NameValues, AppUser : AppUserValues, Seed : SeedValues,
     DiskSize : DiskSizeValues, RAMSize : RAMSizeValues,
     CPUCount : CPUCountValues, BackupDiskSize : BackupDiskSizeValues,
     Hostname : {None}, Timezone : {None}, InitUpgrade : {None},
     RedirectToHTTPS : {None}, RestoreBackup : {None},
     PreparePrefixURL : {None}, BackupPrefixURL : {None},
     RestorePrefixURL : {None}]

\* a valid document that relies on the defaults
DefaultsPart ==
    [Name |-> Some(<<"w">>), AppUser |-> None, Seed |-> Some(<<"s">>),
     DiskSize |-> Some(1 * MB), RAMSize |-> Some(512 * MB),
     CPUCount |-> None, BackupDiskSize |-> None,
     Hostname |-> None, Timezone |-> None, InitUpgrade |-> None,
     RedirectToHTTPS |-> None, RestoreBackup |-> None,
     PreparePrefixURL |-> None, BackupPrefixURL |-> None,
     RestorePrefixURL |-> None]

\* a valid document that sets every key
ExplicitPart ==
    [Name |-> Some(<<"w">>), AppUser |-> Some(<<"u">>), Seed |-> Some(<<"s">>),
     DiskSize |-> Some(2 * GB - 1), RAMSize |-> Some(512 * MB),
     CPUCount |-> Some(2), BackupDiskSize |-> Some(32 * MB),
     Hostname |-> Some(<<"w">>), Timezone |-> Some(<<"u">>),
     InitUpgrade |-> Some(FALSE), RedirectToHTTPS |-> Some(FALSE),
     RestoreBackup |-> Some(<<"b">>),
     PreparePrefixURL |-> Some(<<"p">>), BackupPrefixURL |-> Some(<<"q">>),
     RestorePrefixURL |-> Some(EmptyString)]

ProfileParts ==
    {DefaultsPart, ExplicitPart,
     [DefaultsPart EXCEPT !.BackupDiskSize = Some(32 * MB - 1)],
     [ExplicitPart EXCEPT !.Name = Some(<<"w", "!">>)]}

DomainStrings ==
    {<<"a">>, <<"A", " ">>, <<"b", "-", ">", "8">>, <<"b", "-", ">", "x">>,
     <<"a", "-", ">", "1", "-", ">", "2">>}

RedirectEntries ==
    {<<<<"c">>, <<"a">>>>, <<<<"d">>, <<"c">>>>, <<<<"A">>, <<"a", " ">>>>,
     <<<<"c">>>>}

EnvLines ==
    {<<<<"k">>, <<"v">>>>, <<<<"k">>, <<"w">>>>, <<<<"j">>, <<"v">>>>,
     <<<<"!">>, <<"v">>>>, <<<<"k">>>>}

PrepareLines ==
    {<<"u", "@", "g">>, <<"u", "@", "n">>, <<"u", "@", "s">>, <<"u", "@", "f">>,
     <<"g">>, <<"!", "@", "g">>}

BackupLines == {<<"u", "@", "g">>, <<"u", "@", "n">>}

RestoreLines == {<<"v", "@", "g">>, <<"g">>}

SeqsOfLen(S, k) == [1..k -> S]

Opt(list) == IF list = <<>> THEN None ELSE Some(list)

\* how n or fewer list entries spread over the six lists of a document
Lengths(n) ==
    {c \in [1..6 -> 0..n] : c[1] + c[2] + c[3] + c[4] + c[5] + c[6] <= n}

Document(scalars, domains, redirects, env, prepare, backup, restore) ==
    [k \in TomlKeys |->
        CASE k = "Domains" -> Opt(domains)
          [] k = "Redirects" -> Opt(redirects)
          [] k = "Env" -> Opt(env)
          [] k = "Prepare" -> Opt(prepare)
          [] k = "Backup" -> Opt(backup)
          [] k = "Restore" -> Opt(restore)
          [] OTHER -> scalars[k]]

\* doc is a document with the scalar keys of one of scalarParts and at most
\* n list entries
DocumentIn(scalarParts, n) ==
    \E s \in scalarParts, c \in Lengths(n) :
        \E d \in SeqsOfLen(DomainStrings, c[1]),
           r \in SeqsOfLen(RedirectEntries, c[2]),
           e \in SeqsOfLen(EnvLines, c[3]),
           p \in SeqsOfLen(PrepareLines, c[4]),
           b \in SeqsOfLen(BackupLines, c[5]),
           t \in SeqsOfLen(RestoreLines, c[6]) :
            doc = Document(s, d, r, e, p, b, t)

NotCompiled == [done |-> FALSE, err |-> NoError, vmConfig |-> NilConfig]

CompileInit ==
    /\ \/ DocumentIn(ScalarParts, MinorEntries)
       \/ DocumentIn(ProfileParts, MaxEntries)
       \/ doc = MalformedDoc
    /\ result = NotCompiled

\* no document is being compiled
CompileIdle ==
    /\ doc = MalformedDoc
    /\ result = NotCompiled

\* one call of NewVMConfigFromTomlReader on the document
Compile ==
    /\ ~result.done
    /\ result' = NewVMConfigFromTomlReader(doc)
    /\ UNCHANGED doc
    /\ UNCHANGED outsideCompile

(***************************************************************************)
(* VM creation (test-create.go, main)                                      *)
(***************************************************************************)
\* the steps with the transfer set up before the destination volume is created
Steps_TransfertFirst ==
    <<"connect", "lookupDomain",
      "lookupPoolReleases", "lookupPoolDisks", "lookupVolSrc", "readVolumeXML",
      "unmarshalVolume", "marshalVolume", "newTransfert", "createVol", "copy",
      "resizeLookupPool", "resizeLookupVol", "resize",
      "readDomainXML", "unmarshalDomain", "marshalDomain", "define", "start",
      "done">>

\* the steps of main() in program order, those of the functions it calls
\* included
Steps ==
    <<"connect", "lookupDomain",
      "lookupPoolReleases", "lookupPoolDisks", "lookupVolSrc", "readVolumeXML",
      "unmarshalVolume", "marshalVolume", "createVol", "newTransfert", "copy",
      "resizeLookupPool", "resizeLookupVol", "resize",
      "readDomainXML", "unmarshalDomain", "marshalDomain", "define", "start",
      "done">>

StepIndex(step) == CHOOSE i \in 1..Len(Steps) : Steps[i] = step

\* where main() goes on after a step that returned without error
NextStep(step) == Steps[StepIndex(step) + 1]

\* resizeDisk (the qemu-img variant) prints the error and returns: main()
\* would go on with the next step
OnError_PrintAndGoOn(step) == IF step = "resize" THEN NextStep(step) ELSE "fatal"

\* log.Fatal: the process exits
OnError(step) == "fatal"

CreateInit ==
    /\ cpc = "connect"
    /\ conn = "none"
    /\ envr \in [poolReleases : BOOLEAN, poolDisks : BOOLEAN, release : BOOLEAN,
                 volumeXML : {"missing", "invalid", "ok"},
                 domainXML : {"missing", "invalid", "ok"}]
    /\ vol \in {"absent", "full"}
    /\ domain \in {"absent", "defined", "running"}
    /\ made = {}
    /\ succeeded = <<>>
    /\ failed = "none"

\* main() is not running
CreateIdle ==
    /\ cpc = "done"
    /\ conn = "none"
    /\ envr = [poolReleases |-> TRUE, poolDisks |-> TRUE, release |-> TRUE,
               volumeXML |-> "ok", domainXML |-> "ok"]
    /\ vol = "absent"
    /\ domain = "absent"
    /\ made = {}
    /\ succeeded = <<>>
    /\ failed = "none"

\* a step that changes nothing but the position: it goes on when the call
\* returned without error, and ends the process when it returned an error
Proceed(step, ok) ==
    /\ cpc = step
    /\ cpc' = IF ok THEN NextStep(step) ELSE OnError(step)
    /\ failed' = IF ok THEN failed ELSE step

\* the connection to libvirtd can be lost at any moment, and stays lost
ConnectionLost ==
    /\ conn = "open"
    /\ cpc \notin {"done", "fatal"}
    /\ conn' = "lost"
    /\ UNCHANGED <<cpc, envr, vol, domain, made, succeeded, failed>> /\ UNCHANGED outsideCreate

\* libvirt.NewConnect("qemu:///system")
Connect ==
    \E ok \in BOOLEAN :
        /\ Proceed("connect", ok)
        /\ conn' = IF ok THEN "open" ELSE conn
        /\ UNCHANGED <<envr, vol, domain, made, succeeded>> /\ UNCHANGED outsideCreate

\* conn.LookupDomainByName("test0"): err == nil means the domain exists
LookupDomain ==
    /\ cpc = "lookupDomain"
    /\ IF conn = "open" /\ domain # "absent"
       THEN cpc' = "fatal" /\ failed' = "lookupDomain"
       ELSE cpc' = NextStep("lookupDomain") /\ failed' = failed
    /\ UNCHANGED <<conn, envr, vol, domain, made, succeeded>> /\ UNCHANGED outsideCreate

\* conn.LookupStoragePoolByName("mulch-releases")
LookupPoolReleases ==
    /\ Proceed("lookupPoolReleases", conn = "open" /\ envr.poolReleases)
    /\ UNCHANGED <<conn, envr, vol, domain, made, succeeded>> /\ UNCHANGED outsideCreate

\* conn.LookupStoragePoolByName("mulch-disks")
LookupPoolDisks ==
    /\ Proceed("lookupPoolDisks", conn = "open" /\ envr.poolDisks)
    /\ UNCHANGED <<conn, envr, vol, domain, made, succeeded>> /\ UNCHANGED outsideCreate

\* poolReleases.LookupStorageVolByName(release)
LookupVolSrc ==
    /\ Proceed("lookupVolSrc", conn = "open" /\ envr.release)
    /\ UNCHANGED <<conn, envr, vol, domain, made, succeeded>> /\ UNCHANGED outsideCreate

\* ioutil.ReadFile("test-volume.xml")
ReadVolumeXML ==
    /\ Proceed("readVolumeXML", envr.volumeXML # "missing")
    /\ UNCHANGED <<conn, envr, vol, domain, made, succeeded>> /\ UNCHANGED outsideCreate

\* volcfg.Unmarshal
UnmarshalVolume ==
    /\ Proceed("unmarshalVolume", envr.volumeXML = "ok")
    /\ UNCHANGED <<conn, envr, vol, domain, made, succeeded>> /\ UNCHANGED outsideCreate

\* volcfg.Marshal
MarshalVolume ==
    \E ok \in BOOLEAN :
        /\ Proceed("marshalVolume", ok)
        /\ UNCHANGED <<conn, envr, vol, domain, made, succeeded>> /\ UNCHANGED outsideCreate

\* poolDisks.StorageVolCreateXML: the destination volume now exists, empty
CreateVol ==
    \E ok \in BOOLEAN :
        /\ ok => conn = "open" /\ vol = "absent"
        /\ Proceed("createVol", ok)
        /\ vol' = IF ok THEN "empty" ELSE vol
        /\ made' = IF ok THEN made \cup {"volume"} ELSE made
        /\ UNCHANGED <<conn, envr, domain, succeeded>> /\ UNCHANGED outsideCreate

\* NewVolumeTransfert(conn, volSrc, conn, volDst)
NewTransfert ==
    \E ok \in BOOLEAN :
        /\ ok => conn = "open"
        /\ Proceed("newTransfert", ok)
        /\ UNCHANGED <<conn, envr, vol, domain, made, succeeded>> /\ UNCHANGED outsideCreate

\* what a copy that stops on the way leaves of the destination volume: the
\* bytes written so far, none or some (the stream is aborted, the volume stays)
CopyFailure == {"empty", "partial"}

\* vt.Copy(): the whole source is written, or the copy stops on the way
Copy ==
    \E ok \in BOOLEAN, written \in CopyFailure :
        /\ ok => conn = "open"
        /\ Proceed("copy", ok)
        /\ vol' = IF ok THEN "full" ELSE written
        /\ succeeded' = IF ok THEN Append(succeeded, "clone") ELSE succeeded
        /\ UNCHANGED <<conn, envr, domain, made>> /\ UNCHANGED outsideCreate

\* resizeDiskWithLibvirt: conn.LookupStoragePoolByName("mulch-disks")
ResizeLookupPool ==
    /\ Proceed("resizeLookupPool", conn = "open" /\ envr.poolDisks)
    /\ UNCHANGED <<conn, envr, vol, domain, made, succeeded>> /\ UNCHANGED outsideCreate

\* resizeDiskWithLibvirt: poolDisks.LookupStorageVolByName(disk)
ResizeLookupVol ==
    /\ Proceed("resizeLookupVol", conn = "open" /\ vol # "absent")
    /\ UNCHANGED <<conn, envr, vol, domain, made, succeeded>> /\ UNCHANGED outsideCreate

\* resizeDiskWithLibvirt: vol.Resize(size, 0)
Resize ==
    \E ok \in BOOLEAN :
        /\ ok => conn = "open"
        /\ Proceed("resize", ok)
        /\ vol' = IF ok THEN "resized" ELSE vol
        /\ succeeded' = IF ok THEN Append(succeeded, "resize") ELSE succeeded
        /\ UNCHANGED <<conn, envr, domain, made>> /\ UNCHANGED outsideCreate

\* ioutil.ReadFile("test-ci-disk.xml")
ReadDomainXML ==
    /\ Proceed("readDomainXML", envr.domainXML # "missing")
    /\ UNCHANGED <<conn, envr, vol, domain, made, succeeded>> /\ UNCHANGED outsideCreate

\* domcfg.Unmarshal
UnmarshalDomain ==
    /\ Proceed("unmarshalDomain", envr.domainXML = "ok")
    /\ UNCHANGED <<conn, envr, vol, domain, made, succeeded>> /\ UNCHANGED outsideCreate

\* domcfg.Marshal
MarshalDomain ==
    \E ok \in BOOLEAN :
        /\ Proceed("marshalDomain", ok)
        /\ UNCHANGED <<conn, envr, vol, domain, made, succeeded>> /\ UNCHANGED outsideCreate

\* conn.DomainDefineXML
Define ==
    \E ok \in BOOLEAN :
        /\ ok => conn = "open"
        /\ Proceed("define", ok)
        /\ domain' = IF ok THEN "defined" ELSE domain
        /\ made' = IF ok THEN made \cup {"domain"} ELSE made
        /\ succeeded' = IF ok THEN Append(succeeded, "define") ELSE succeeded
        /\ UNCHANGED <<conn, envr, vol>> /\ UNCHANGED outsideCreate

\* dom.Create(): the domain starts
Start ==
    \E ok \in BOOLEAN :
        /\ ok => conn = "open"
        /\ Proceed("start", ok)
        /\ domain' = IF ok THEN "running" ELSE domain
        /\ succeeded' = IF ok THEN Append(succeeded, "start") ELSE succeeded
        /\ UNCHANGED <<conn, envr, vol, made>> /\ UNCHANGED outsideCreate

CreateNext ==
    \/ ConnectionLost
    \/ Connect
    \/ LookupDomain
    \/ LookupPoolReleases
    \/ LookupPoolDisks
    \/ LookupVolSrc
    \/ ReadVolumeXML
    \/ UnmarshalVolume
    \/ MarshalVolume
    \/ CreateVol
    \/ NewTransfert
    \/ Copy
    \/ ResizeLookupPool
    \/ ResizeLookupVol
    \/ Resize
    \/ ReadDomainXML
    \/ UnmarshalDomain
    \/ MarshalDomain
    \/ Define
    \/ Start

(***************************************************************************)
(* VM lifecycle: the "vm redefine" client command (test-create.go,         *)
(* vmRedefineCmd) and the operations of the server it calls                *)
(***************************************************************************)
\* operations requested during one run
MaxOps == 2

VMNames == {"v1", "v2"}

OpIds == 1..MaxOps

\* strconv.FormatBool
FormatBool(b) == IF b THEN "true" ELSE "false"

\* the values of the --revision flag: "" (the default) or a number
RevisionFlags == {EmptyString, <<"1">>, <<"2">>}

\* the call the command builds: POST /vm/<vm-name> with its parameters
RedefineCall(vmName, force, revision) ==
    [path |-> vmName,
     params |-> [action |-> "redefine", force |-> FormatBool(force),
                 revision |-> revision]]

NoCall == [path |-> "", params |-> [action |-> "", force |-> "", revision |-> <<>>]]

\* the resources an operation builds, named after the operation until commit
NewDomain(o) == <<"domain", o>>

NewDisks(o) == {<<"disk", o>>, <<"cloud-init", o>>}

NoRecord == [state |-> "absent", revision |-> 0, domain |-> <<"none", 0>>, disks |-> {}]

\* the VM record of a name with what the hypervisor holds of the domain and
\* disks the record names
Snapshot(vmName) ==
    [record |-> registry[vmName],
     defined |-> registry[vmName].domain \in hyp.domains,
     running |-> registry[vmName].domain \in hyp.running,
     disks |-> registry[vmName].disks \cap hyp.disks]

NoSnapshot == [record |-> NoRecord, defined |-> FALSE, running |-> FALSE, disks |-> {}]

IdleOp ==
    [kind |-> "none", vm |-> "", revision |-> 0, pc |-> "idle",
     error |-> "none", call |-> NoCall, before |-> NoSnapshot]

\* the positions at which an operation holds the lock of its VM and works
BuildPcs == {"locked", "compiled", "disk", "cloudinit", "defined", "started", "prepared"}

WorkingPcs ==
    BuildPcs \cup {"rollback", "retired", "deleted", "backupVolume"}

Working(o) == ops[o].pc \in WorkingPcs

\* the operation ended, one way or the other
Terminated(o) ==
    ops[o].pc \in {"succeeded", "failed", "conflict", "rejected", "crashed", "clientFatal"}

LifecycleInit ==
    /\ registry = [v \in VMNames |->
                    IF v = "v1"
                    THEN [state |-> "active", revision |-> 1,
                          domain |-> NewDomain(0), disks |-> NewDisks(0)]
                    ELSE NoRecord]
    /\ lock = [v \in VMNames |-> 0]
    /\ ops = [o \in OpIds |-> IdleOp]
    /\ hyp = [domains |-> {NewDomain(0)}, running |-> {NewDomain(0)},
              disks |-> NewDisks(0)]

\* no VM, no operation
LifecycleIdle ==
    /\ registry = [v \in VMNames |-> NoRecord]
    /\ lock = [v \in VMNames |-> 0]
    /\ ops = [o \in OpIds |-> IdleOp]
    /\ hyp = [domains |-> {}, running |-> {}, disks |-> {}]

\* operations are numbered in the order they are requested
CanRequest(o) ==
    /\ ops[o].pc = "idle"
    /\ \A p \in OpIds : p < o => ops[p].pc # "idle"

\* vmRedefineCmd.Run: the flags are read, the call is built, the config file
\* is attached (log.Fatal when it cannot be read) and the call is made
ClientRedefine(o) ==
    \E vmName \in VMNames, force \in BOOLEAN, revision \in RevisionFlags,
       fileOk \in BOOLEAN :
        /\ CanRequest(o)
        /\ ops' = [ops EXCEPT ![o] =
                    IF fileOk
                    THEN [@ EXCEPT !.kind = "redefine", !.pc = "called",
                                   !.call = RedefineCall(vmName, force, revision)]
                    ELSE [@ EXCEPT !.kind = "redefine", !.pc = "clientFatal"]]
        /\ UNCHANGED <<registry, lock, hyp>> /\ UNCHANGED outsideLifecycle

\* the lock of the VM is held by an operation that has terminated without
\* releasing it
StaleLock(vmName) == lock[vmName] # 0 /\ Terminated(lock[vmName])

\* the force flag takes over whatever lock is held
LockRefuses_ForceAlways(kind, vmName, force) ==
    /\ lock[vmName] # 0
    /\ ~(kind = "redefine" /\ force)

\* the lock refuses the operation: it is held, and the operation is not a
\* forced redefine recovering a stale lock
LockRefuses(kind, vmName, force) ==
    /\ lock[vmName] # 0
    /\ ~(kind = "redefine" /\ force /\ StaleLock(vmName))

\* why the request is turned down before anything is done, "none" if it is not
Refusal(kind, vmName, force) ==
    LET exists == registry[vmName].state # "absent"
        locked == LockRefuses(kind, vmName, force)
    IN  CASE kind = "create" ->
                IF exists THEN "exists" ELSE IF locked THEN "locked" ELSE "none"
          [] kind = "redefine" ->
                IF locked THEN "locked" ELSE IF ~exists THEN "missing" ELSE "none"
          [] OTHER ->
                IF ~exists THEN "missing" ELSE IF locked THEN "locked" ELSE "none"

\* the request is checked and the lock acquired in one step, without waiting:
\* a locked VM is an immediate "VM is locked" conflict
Admit(o, kind, vmName, force, revision) ==
    LET why == Refusal(kind, vmName, force) IN
    /\ ops' = [ops EXCEPT ![o] =
                [kind |-> kind, vm |-> vmName,
                 revision |-> IF why = "none" THEN revision ELSE 0,
                 pc |-> CASE why = "none" -> "locked"
                          [] why = "locked" -> "conflict"
                          [] OTHER -> "rejected",
                 error |-> why, call |-> NoCall,
                 before |-> IF why = "none" THEN Snapshot(vmName) ELSE NoSnapshot]]
    /\ lock' = IF why = "none" THEN [lock EXCEPT ![vmName] = o] ELSE lock

\* the server handles the redefine call: the VM name is the end of the path,
\* the force flag and the revision number (0 when none is given) are read
\* from the parameters
ServeRedefine(o) ==
    /\ ops[o].pc = "called"
    /\ LET call == ops[o].call IN
       Admit(o, "redefine", call.path, call.params.force = "true",
             IF call.params.revision = EmptyString THEN 0
             ELSE Atoi(call.params.revision).val)
    /\ UNCHANGED <<registry, hyp>> /\ UNCHANGED outsideLifecycle

\* the server handles a create, backup or delete request
Serve(o) ==
    \E kind \in {"create", "backup", "delete"}, vmName \in VMNames :
        /\ CanRequest(o)
        /\ Admit(o, kind, vmName, FALSE, 0)
        /\ UNCHANGED <<registry, hyp>> /\ UNCHANGED outsideLifecycle

\* the revision a redefine installs: the one asked for, or the next one
TargetRevision(o) ==
    IF ops[o].revision # 0 THEN ops[o].revision ELSE registry[ops[o].vm].revision + 1

StaleRevision(o) ==
    /\ ops[o].kind = "redefine"
    /\ ops[o].revision # 0
    /\ ops[o].revision <= registry[ops[o].vm].revision

\* the position after a build step, and what the step adds to the hypervisor
AfterBuild(pc) ==
    CASE pc = "locked" -> "compiled"
      [] pc = "compiled" -> "disk"
      [] pc = "disk" -> "cloudinit"
      [] pc = "cloudinit" -> "defined"
      [] pc = "defined" -> "started"
      [] pc = "started" -> "prepared"

\* one step of a build (create or redefine): compile the config, provision
\* the disk, provision the cloud-init volume, define the domain, start it,
\* run the prepare scripts. A step that fails sends the operation to rollback;
\* a provisioning that fails leaves its volume behind.
BuildStep(o) ==
    \E ok \in BOOLEAN :
        /\ ops[o].kind \in {"create", "redefine"}
        /\ ops[o].pc \in BuildPcs \ {"prepared"}
        /\ ops[o].pc = "locked" /\ StaleRevision(o) => ~ok
        /\ LET pc == ops[o].pc IN
           /\ ops' = [ops EXCEPT ![o] =
                        [@ EXCEPT !.pc = IF ok THEN AfterBuild(pc) ELSE "rollback",
                                  !.error = IF ok THEN @
                                            ELSE IF pc = "locked" /\ StaleRevision(o)
                                            THEN "stale" ELSE "build"]]
           /\ hyp' =
                CASE pc = "compiled" ->
                        [hyp EXCEPT !.disks = @ \cup {<<"disk", o>>}]
                  [] pc = "disk" ->
                        [hyp EXCEPT !.disks = @ \cup {<<"cloud-init", o>>}]
                  [] pc = "cloudinit" /\ ok ->
                        [hyp EXCEPT !.domains = @ \cup {NewDomain(o)}]
                  [] pc = "defined" /\ ok ->
                        [hyp EXCEPT !.running = @ \cup {NewDomain(o)}]
                  [] OTHER -> hyp
        /\ UNCHANGED <<registry, lock>> /\ UNCHANGED outsideLifecycle

\* the handler of operation o returns (or dies): its parameters are gone
Ended(o, how) ==
    [ops EXCEPT ![o] = [@ EXCEPT !.pc = how, !.revision = 0, !.before = NoSnapshot]]

\* what is left of the hypervisor once the resources of operation o are gone
Without(h, domainId, diskIds) ==
    [domains |-> h.domains \ {domainId}, running |-> h.running \ {domainId},
     disks |-> h.disks \ diskIds]

Release(o) == [lock EXCEPT ![ops[o].vm] = IF @ = o THEN 0 ELSE @]

\* the failed operation discards what it built and releases the lock
Rollback(o) ==
    /\ ops[o].pc = "rollback"
    /\ hyp' = Without(hyp, NewDomain(o), NewDisks(o) \cup {<<"backup", o>>})
    /\ lock' = Release(o)
    /\ ops' = Ended(o, "failed")
    /\ UNCHANGED registry /\ UNCHANGED outsideLifecycle

\* create: the VM record is persisted at revision 1 and the lock released
PersistCreate(o) ==
    /\ ops[o].kind = "create"
    /\ ops[o].pc = "prepared"
    /\ registry' = [registry EXCEPT ![ops[o].vm] =
                        [state |-> "active", revision |-> 1,
                         domain |-> NewDomain(o), disks |-> NewDisks(o)]]
    /\ lock' = Release(o)
    /\ ops' = Ended(o, "succeeded")
    /\ UNCHANGED hyp /\ UNCHANGED outsideLifecycle

\* commit may begin after the start of the new domain, before its prepare
\* scripts have run
CommitReady_BeforePrepare(o) == ops[o].pc \in {"started", "prepared"}

\* commit may begin: the new domain is defined and started and its prepare
\* scripts have succeeded
CommitReady(o) == ops[o].pc = "prepared"

\* redefine, commit: the old domain is stopped and undefined, its disks
\* deleted
RetireOld(o) ==
    /\ ops[o].kind = "redefine"
    /\ CommitReady(o)
    /\ hyp' = Without(hyp, registry[ops[o].vm].domain, registry[ops[o].vm].disks)
    /\ ops' = [ops EXCEPT ![o].pc = "retired"]
    /\ UNCHANGED <<registry, lock>> /\ UNCHANGED outsideLifecycle

\* redefine, commit: the new resources take the identity of the VM, the
\* revision is bumped, the lock released
Swap(o) ==
    /\ ops[o].kind = "redefine"
    /\ ops[o].pc = "retired"
    /\ registry' = [registry EXCEPT ![ops[o].vm] =
                        [state |-> "active", revision |-> TargetRevision(o),
                         domain |-> NewDomain(o), disks |-> NewDisks(o)]]
    /\ lock' = Release(o)
    /\ ops' = Ended(o, "succeeded")
    /\ UNCHANGED hyp /\ UNCHANGED outsideLifecycle

\* backup: the backup volume is provisioned
BackupVolume(o) ==
    \E ok \in BOOLEAN :
        /\ ops[o].kind = "backup"
        /\ ops[o].pc = "locked"
        /\ hyp' = [hyp EXCEPT !.disks = @ \cup {<<"backup", o>>}]
        /\ ops' = [ops EXCEPT ![o] =
                    [@ EXCEPT !.pc = IF ok THEN "backupVolume" ELSE "rollback",
                              !.error = IF ok THEN @ ELSE "build"]]
        /\ UNCHANGED <<registry, lock>> /\ UNCHANGED outsideLifecycle

\* backup: the backup scripts run; on success the volume is kept for
\* download and the lock released
BackupScripts(o) ==
    \E ok \in BOOLEAN :
        /\ ops[o].kind = "backup"
        /\ ops[o].pc = "backupVolume"
        /\ lock' = IF ok THEN Release(o) ELSE lock
        /\ ops' = [ops EXCEPT ![o] =
                    [@ EXCEPT !.pc = IF ok THEN "succeeded" ELSE "rollback",
                              !.error = IF ok THEN @ ELSE "build"]]
        /\ UNCHANGED <<registry, hyp>> /\ UNCHANGED outsideLifecycle

\* delete: the domain is stopped and undefined, its volumes deleted
DeleteResources(o) ==
    /\ ops[o].kind = "delete"
    /\ ops[o].pc = "locked"
    /\ hyp' = Without(hyp, registry[ops[o].vm].domain, registry[ops[o].vm].disks)
    /\ ops' = [ops EXCEPT ![o].pc = "deleted"]
    /\ UNCHANGED <<registry, lock>> /\ UNCHANGED outsideLifecycle

\* delete: the VM record is removed, the lock released last
RemoveRecord(o) ==
    /\ ops[o].kind = "delete"
    /\ ops[o].pc = "deleted"
    /\ registry' = [registry EXCEPT ![ops[o].vm] = NoRecord]
    /\ lock' = Release(o)
    /\ ops' = Ended(o, "succeeded")
    /\ UNCHANGED hyp /\ UNCHANGED outsideLifecycle

\* the operation dies on the way (the server stops): nothing is undone and
\* the lock stays held
Crash(o) ==
    /\ Working(o)
    /\ ops' = Ended(o, "crashed")
    /\ UNCHANGED <<registry, lock, hyp>> /\ UNCHANGED outsideLifecycle

LifecycleNext ==
    \E o \in OpIds :
        \/ ClientRedefine(o)
        \/ ServeRedefine(o)
        \/ Serve(o)
        \/ BuildStep(o)
        \/ Rollback(o)
        \/ PersistCreate(o)
        \/ RetireOld(o)
        \/ Swap(o)
        \/ BackupVolume(o)
        \/ BackupScripts(o)
        \/ DeleteResources(o)
        \/ RemoveRecord(o)
        \/ Crash(o)

(***************************************************************************)
(* Specifications                                                          *)
(***************************************************************************)
vars ==
    <<doc, result, cpc, conn, envr, vol, domain, made, succeeded, failed,
      registry, lock, ops, hyp>>

\* the compiler applied to every document of the bounded input set
Init == CompileInit /\ CreateIdle /\ LifecycleIdle

Next == Compile

Spec == Init /\ [][Next]_vars

\* one run of main() in every environment
InitCreate == CreateInit /\ CompileIdle /\ LifecycleIdle

SpecCreate == InitCreate /\ [][CreateNext]_vars

\* VM v1 is active at revision 1; operations arrive and run concurrently
InitLifecycle == LifecycleInit /\ CompileIdle /\ CreateIdle

SpecLifecycle == InitLifecycle /\ [][LifecycleNext]_vars

(***************************************************************************)
(* Properties of the VM lifecycle                                          *)
(***************************************************************************)
\* a redefine that holds the lock and has not begun its commit
Redefining(o) ==
    /\ ops[o].kind = "redefine"
    /\ ops[o].pc \in BuildPcs \cup {"rollback"}

\* this step ends the redefine o in failure
RedefineFails(o) ==
    /\ Redefining(o)
    /\ ops'[o].pc = "failed"

\* this step takes the domain or a disk of the active VM from the hypervisor
RetiresActive(vmName) ==
    /\ registry[vmName].state = "active"
    /\ \/ registry[vmName].domain \in hyp.domains \ hyp'.domains
       \/ registry[vmName].domain \in hyp.running \ hyp'.running
       \/ registry[vmName].disks \cap (hyp.disks \ hyp'.disks) # {}

Answers(o) ==
    /\ ops[o].pc \in {"idle", "called"}
    /\ ops'[o].pc \in {"locked", "conflict", "rejected"}

\* another operation is at work on the VM the request of o names
Busy(o) ==
    \E p \in OpIds \ {o} : Working(p) /\ ops[p].vm = ops'[o].vm

\* the request of o names a VM that its kind of operation can be applied to
Applicable(o) ==
    (ops'[o].kind = "create") = (registry[ops'[o].vm].state = "absent")

CreateOrder == <<"clone", "resize", "define", "start">>

\* test0 is there and this run did not define it
AlreadyDefined == domain # "absent" /\ "domain" \notin made

CloneFailedAfterCreate == failed \in {"newTransfert", "copy"}

\* C11: the clone creates the destination volume in the disks pool before it
\* sets up the transfer and copies; when the set-up or the copy fails the run
\* ends in failure with the volume it created still in the pool, empty after
\* a failed set-up, empty or partly written after a failed copy; and no step
\* of the run ever removes a volume from the pool.
C11_NoSelfClean ==
    /\ [](/\ cpc \in {"newTransfert", "copy"} =>
                "volume" \in made /\ vol = "empty"
          /\ CloneFailedAfterCreate =>
                /\ cpc = "fatal"
                /\ succeeded = <<>>
                /\ "volume" \in made
                /\ vol \in CopyFailure
          /\ failed = "newTransfert" => vol = "empty")
    /\ [][/\ vol # "absent" => vol' # "absent"
          /\ "volume" \in made => "volume" \in made']_vars

\* the copy stopped on the way: the run is over and the volume it created
\* is in the pool, partly written
C11_Witness ==
    /\ cpc = "fatal"
    /\ failed = "copy"
    /\ vol = "partial"
    /\ made = {"volume"}
    /\ succeeded = <<>>

(***************************************************************************)
(* Properties of the configuration compiler                                *)
(***************************************************************************)
Compiled == result.done /\ "malformed" \notin DOMAIN doc

Succeeded == Compiled /\ ~IsError(result.err)

Failed == Compiled /\ IsError(result.err) /\ result.vmConfig = NilConfig

\* the value of key k in the document, dflt when the document leaves it out
Field(k, dflt) == IF doc[k] = None THEN dflt ELSE doc[k][1]

\* the seven checks, in the order the specification lists them:
\* ViolatedChecks is the set of the positions of the violated ones
CheckKinds ==
    <<"VM name", "app_user name", "seed image", "small disk", "small RAM",
      "CPU", "small backup disk">>

ViolatedChecks ==
    {i \in 1..7 :
        CASE i = 1 -> ~IsValidTokenName(Field("Name", EmptyString))
          [] i = 2 -> Field("AppUser", <<"a", "p", "p">>) = EmptyString
          [] i = 3 -> ~IsValidTokenName(Field("Seed", EmptyString))
          [] i = 4 -> Field("DiskSize", 0) < 1024
          [] i = 5 -> Field("RAMSize", 0) < 1024
          [] i = 6 -> Field("CPUCount", 1) < 1
          [] i = 7 -> Field("BackupDiskSize", 2 * 1024 * 1024) < 32 * 1024}

EarliestViolated == CHOOSE i \in ViolatedChecks : \A j \in ViolatedChecks : i <= j

\* the errors a domain, redirect or env entry is rejected with
EntryKinds ==
    {"domain string", "port number", "redirect values", "redirect target",
     "domain duplicated", "env line", "env name", "env duplicated"}

DeclaredDomains == Field("Domains", <<>>)

DeclaredRedirects == Field("Redirects", <<>>)

DeclaredEnv == Field("Env", <<>>)

\* a host name as the compiler normalises it: lower-cased and trimmed
Normalised(s) == TrimSpace(ToLower(s))

\* the part of a domain entry before its first "->"
RECURSIVE HostPart(_)
HostPart(s) ==
    IF s = <<>> \/ (Len(s) >= 2 /\ s[1] = "-" /\ s[2] = ">") THEN <<>>
    ELSE <<Head(s)>> \o HostPart(Tail(s))

\* the host names of the declared domain bindings
BindingHosts ==
    {Normalised(HostPart(DeclaredDomains[i])) : i \in 1..Len(DeclaredDomains)}

\* the positions of the redirect pairs whose target is no binding's host name
BadRedirects ==
    {i \in 1..Len(DeclaredRedirects) :
        /\ Len(DeclaredRedirects[i]) = 2
        /\ Normalised(DeclaredRedirects[i][2]) \notin BindingHosts}

FirstBadRedirect == CHOOSE i \in BadRedirects : \A j \in BadRedirects : i <= j

NamesRedirect(i) ==
    /\ result.err.kind = "redirect target"
    /\ result.err.arg = Normalised(DeclaredRedirects[i][2])

\* C4 as stated: a config with a redirect pair whose target is not the host
\* name of one of its domain bindings fails with a validation error naming
\* that redirect, and returns no VMConfig.
C4_AsStated ==
    Compiled =>
        \A i \in BadRedirects : Failed /\ NamesRedirect(i)

\* nothing before redirect i is rejected: the six scalar checks pass, every
\* domain entry is "host" or "host->port" with a decimal port, and every
\* earlier redirect is a pair whose target is a binding's host name
ReachesRedirect(i) ==
    /\ ViolatedChecks \subseteq {7}
    /\ \A j \in 1..Len(DeclaredDomains) :
        LET parts == Split(DeclaredDomains[j], <<"-", ">">>) IN
        \/ Len(parts) = 1
        \/ Len(parts) = 2 /\ Atoi(parts[2]).ok
    /\ \A j \in 1..(i - 1) : Len(DeclaredRedirects[j]) = 2 /\ j \notin BadRedirects

\* C4 amended: such a config always fails and returns no VMConfig; the error
\* names the target of the redirect when nothing before that redirect is
\* rejected (scalar fields, domain entries, earlier redirects), otherwise the
\* error is the one of the earlier rejection. A target that is only another
\* redirect's source is rejected in the same way.
C4_RedirectTarget ==
    Compiled =>
        \A i \in BadRedirects :
            /\ Failed
            /\ ReachesRedirect(i) => NamesRedirect(i)

\* binding a, redirect c -> a, then redirect d -> c: d's target c is only a
\* redirect's source, and the compile fails naming c
C4_Witness ==
    /\ Compiled
    /\ DeclaredDomains = <<<<"a">>>>
    /\ DeclaredRedirects = <<<<<<"c">>, <<"a">>>>, <<<<"d">>, <<"c">>>>>>
    /\ BadRedirects = {2}
    /\ ReachesRedirect(2)
    /\ Failed
    /\ result.err = Error("redirect target", <<"c">>)

\* the host names the document declares, bindings first, then the sources of
\* the redirects, each lower-cased and trimmed
DeclaredHosts ==
    [i \in 1..Len(DeclaredDomains) |-> Normalised(HostPart(DeclaredDomains[i]))]
    \o [i \in 1..Len(DeclaredRedirects) |->
            IF DeclaredRedirects[i] = <<>> THEN <<>>
            ELSE Normalised(DeclaredRedirects[i][1])]

HasDuplicate(names) ==
    \E i, j \in 1..Len(names) : i # j /\ names[i] = names[j]

\* C5: a config in which a host name (lower-cased, trimmed) appears more than
\* once across domain bindings and redirect sources fails to compile; in every
\* compiled VMConfig the names of the Domains entries are pairwise distinct.
C5_UniqueDomains ==
    /\ Compiled /\ HasDuplicate(DeclaredHosts) => Failed
    /\ Succeeded =>
        LET names == [i \in 1..Len(result.vmConfig.Domains) |->
                        result.vmConfig.Domains[i].Name]
        IN  ~HasDuplicate(names) /\ names = DeclaredHosts

\* binding "a" and a redirect whose source "A" is the same host name: the
\* compile reaches the duplicate check and fails there
C5_Witness ==
    /\ Compiled
    /\ DeclaredDomains = <<<<"a">>>>
    /\ DeclaredRedirects = <<<<<<"A">>, <<"a", " ">>>>>>
    /\ HasDuplicate(DeclaredHosts)
    /\ Failed
    /\ result.err = Error("domain duplicated", <<"a">>)

\* the port a domain entry gives: the number after "->", 80 without "->"
DeclaredPort(entry) ==
    LET parts == Split(entry, <<"-", ">">>) IN
    IF Len(parts) = 1 THEN 80 ELSE Atoi(parts[2]).val

\* the (hostname, port, redirect-to-https) tuples of the domain entries
DeclaredBindings ==
    [i \in 1..Len(DeclaredDomains) |->
        <<Normalised(HostPart(DeclaredDomains[i])),
          DeclaredPort(DeclaredDomains[i]),
          Field("RedirectToHTTPS", TRUE)>>]

\* the tuples a redirect pair adds to Domains, with its target
DeclaredRedirectEntries ==
    [i \in 1..Len(DeclaredRedirects) |->
        <<Normalised(DeclaredRedirects[i][1]), 0, FALSE,
          Normalised(DeclaredRedirects[i][2])>>]

DeclaredEnvPairs == {<<DeclaredEnv[i][1], DeclaredEnv[i][2]>> : i \in 1..Len(DeclaredEnv)}

CompiledDomainTuples ==
    [i \in 1..Len(result.vmConfig.Domains) |->
        <<result.vmConfig.Domains[i].Name,
          result.vmConfig.Domains[i].DestinationPort,
          result.vmConfig.Domains[i].RedirectToHTTPS>>]

CompiledEnvPairs ==
    {<<k, result.vmConfig.Env[k]>> : k \in DOMAIN result.vmConfig.Env}

\* C6 as stated: the Domains of a compiled VMConfig are exactly the
\* (hostname, port, redirect-to-https) tuples of the document's domain
\* entries, in declaration order, and its Env exactly the document's pairs.
C6_AsStated ==
    Succeeded =>
        /\ CompiledDomainTuples = DeclaredBindings
        /\ CompiledEnvPairs = DeclaredEnvPairs

\* C6 amended: the Domains of a compiled VMConfig start with the tuples of
\* the document's domain entries (host name lower-cased and trimmed, port 80
\* where none is given), in declaration order, followed by one entry per
\* redirect pair, in declaration order, with the pair's source as name, port
\* 0, no redirect-to-https and the pair's target as RedirectTo; Env holds
\* exactly the document's (key, value) pairs.
C6_RoundTrip ==
    Succeeded =>
        LET n == Len(DeclaredDomains)
            domains == result.vmConfig.Domains
        IN
        /\ Len(domains) = n + Len(DeclaredRedirects)
        /\ SubSeq(CompiledDomainTuples, 1, n) = DeclaredBindings
        /\ \A i \in 1..n : domains[i].RedirectTo = EmptyString
        /\ [i \in 1..Len(DeclaredRedirects) |->
                <<domains[n + i].Name, domains[n + i].DestinationPort,
                  domains[n + i].RedirectToHTTPS, domains[n + i].RedirectTo>>]
            = DeclaredRedirectEntries
        /\ CompiledEnvPairs = DeclaredEnvPairs

\* two bindings, one with a port and one written in upper case with a
\* trailing blank, and a redirect, compile
C6_Witness ==
    /\ Succeeded
    /\ DeclaredDomains = <<<<"b", "-", ">", "8">>, <<"A", " ">>>>
    /\ DeclaredRedirects = <<<<<<"c">>, <<"a">>>>>>
    /\ CompiledDomainTuples =
        <<<<<<"b">>, 8, Field("RedirectToHTTPS", TRUE)>>,
          <<<<"a">>, 80, Field("RedirectToHTTPS", TRUE)>>,
          <<<<"c">>, 0, FALSE>>>>

\* the positions of "@" in a script line
AtPlaces(line) == {i \in 1..Len(line) : line[i] = "@"}

FirstAt(line) == CHOOSE i \in AtPlaces(line) : \A j \in AtPlaces(line) : i <= j

\* the run-as user and the URL a script line of a category stands for
LineUser(line) == SubSeq(line, 1, FirstAt(line) - 1)

LineURL(line, prefix) == prefix \o SubSeq(line, FirstAt(line) + 1, Len(line))

\* what the first two bytes served at the URL are "#!"
HasShebang(url) ==
    /\ Web(url).ok
    /\ Len(Web(url).body) >= 2
    /\ Web(url).body[1] = "#"
    /\ Web(url).body[2] = "!"

\* the script line is one the compiler has to accept
GoodLine(line, prefix) ==
    /\ AtPlaces(line) # {}
    /\ IsValidTokenName(LineUser(line))
    /\ HasShebang(LineURL(line, prefix))

\* the three categories: the key of the lines, the key of the prefix
Categories ==
    {<<"Prepare", "PreparePrefixURL">>, <<"Backup", "BackupPrefixURL">>,
     <<"Restore", "RestorePrefixURL">>}

Lines(cat) == Field(cat[1], <<>>)

Prefix(cat) == Field(cat[2], EmptyString)

\* the URLs of the declared scripts that cannot be fetched, or are fetched
\* without the "#!" signature
OffendingURLs ==
    UNION {{LineURL(Lines(cat)[i], Prefix(cat)) :
                i \in {j \in 1..Len(Lines(cat)) :
                        /\ AtPlaces(Lines(cat)[j]) # {}
                        /\ ~HasShebang(LineURL(Lines(cat)[j], Prefix(cat)))}}
           : cat \in Categories}

\* C7: a script line that lacks "@", has an invalid user, cannot be fetched or
\* does not start with "#!" makes the compile fail, and a fetch or signature
\* failure names the URL (category prefix + relative URL) of such a script; a
\* compiled VMConfig holds the scripts of each category in declared order,
\* each with its URL and its run-as user.
C7_Scripts ==
    /\ Compiled =>
        /\ (\E cat \in Categories : \E i \in 1..Len(Lines(cat)) :
                ~GoodLine(Lines(cat)[i], Prefix(cat))) => Failed
        /\ result.err.kind \in {"script fetch", "script read", "script shebang"}
            => result.err.arg \in OffendingURLs
    /\ Succeeded =>
        \A cat \in Categories :
            result.vmConfig[cat[1]] =
                [i \in 1..Len(Lines(cat)) |->
                    [ScriptURL |-> LineURL(Lines(cat)[i], Prefix(cat)),
                     As |-> LineUser(Lines(cat)[i])]]

\* with backup prefix q, the backup script u@g is fetched at qg, which does
\* not start with "#!": the compile fails naming qg
C7_Witness ==
    /\ Compiled
    /\ Field("BackupPrefixURL", EmptyString) = <<"q">>
    /\ Field("Prepare", <<>>) = <<<<"u", "@", "n">>>>
    /\ Field("Backup", <<>>) = <<<<"u", "@", "n">>, <<"u", "@", "g">>>>
    /\ Failed
    /\ result.err = Error("script shebang", <<"q", "g">>)

\* the positions of the env lines the compiler has to reject
BadEnvLines ==
    {i \in 1..Len(DeclaredEnv) :
        \/ Len(DeclaredEnv[i]) # 2
        \/ ~IsValidTokenName(DeclaredEnv[i][1])
        \/ \E j \in 1..(i - 1) :
            DeclaredEnv[j] # <<>> /\ DeclaredEnv[j][1] = DeclaredEnv[i][1]}

\* C8: an env entry that is not a (key, value) pair, whose key is no valid
\* token, or whose key repeats an earlier key makes the compile fail; the Env
\* of a compiled VMConfig has one entry per declared line, with the declared
\* value.
C8_Env ==
    /\ Compiled /\ BadEnvLines # {} => Failed
    /\ Succeeded =>
        /\ Cardinality(DOMAIN result.vmConfig.Env) = Len(DeclaredEnv)
        /\ \A i \in 1..Len(DeclaredEnv) :
            /\ DeclaredEnv[i][1] \in DOMAIN result.vmConfig.Env
            /\ result.vmConfig.Env[DeclaredEnv[i][1]] = DeclaredEnv[i][2]

\* the key k is declared twice with different values: rejected as duplicated
C8_Witness ==
    /\ Compiled
    /\ DeclaredEnv = <<<<<<"k">>, <<"v">>>>, <<<<"k">>, <<"w">>>>>>
    /\ Failed
    /\ result.err = Error("env duplicated", <<"k">>)

====
